---- MODULE Spec2Model ----
(***************************************************************************)
(* Smart-Financial-Planner: the four-stage research pipeline               *)
(* (researcher -> curator -> fact_checker -> writer), the embedding index  *)
(* registry (build_index / search_index) and the lexical claim verifier    *)
(* (verify_claims_tool).                                                   *)
(*                                                                         *)
(* Python strings are modelled as sequences of one-character strings, so   *)
(* that lower(), slicing, strip() and the substring test `t in text` are   *)
(* computed and not assumed.  Python's None is the string NONE where the   *)
(* other values are strings, and an absent dict key is a missing record    *)
(* field.                                                                  *)
(***************************************************************************)
EXTENDS Integers, Sequences, FiniteSets, TLC

VARIABLES
    \* ---- a tool called on its own (SpecVerify, SpecBuild) ----
    vclaims,      \* verify: the claims argument, a sequence of claim texts
    vsources,     \* verify: the sources argument; build: the docs argument
    vres,         \* verify: min_overlap -> the list verify_claims_tool returned
    calls,        \* log of the calls of tools and helpers made on their own
    \* ---- process-wide state ----
    INDEX_REG,    \* tools._INDEX_REG: key -> store
    environ,      \* os.environ['MIN_EVIDENCE_OVERLAP'] (NONE when unset)
    now,          \* the wall clock, in milliseconds
    files,        \* the files under OUTPUTS_DIR: path -> the run that wrote it last
    builds,       \* log of the build_index calls made so far (call order)
    \* ---- one entry per run (HTTP request) ----
    pc,           \* the node the graph runs next; "idle", "END", "raised" or "closed"
    mode,         \* the mode the request asked for
    state,        \* the ResearchState threaded through the graph
    local,        \* curator.node's local idx between its two tool calls
    invoked,      \* log of the node entries and exits of the run
    passed,       \* the min_overlap values the run handed to verify_claims_tool
    observed,     \* the tool results the stages of the run received (by name)
    cause,        \* what made the run raise (NONE while it has not)
    response      \* the HTTP status returned to the caller (0 while running)

toolVars == <<vclaims, vsources, vres, calls>>
procVars == <<INDEX_REG, environ, now, files, builds>>
runVars == <<pc, mode, state, local, invoked, passed, observed, cause, response>>
vars == <<toolVars, procVars, runVars>>

NONE == "None"

(***************************************************************************)
(* Bounds of the model.                                                    *)
(***************************************************************************)
MaxClaims == 1        \* longest claims list handed to verify
MaxSources == 2       \* longest sources list handed to verify
MaxMinOverlap == 2    \* largest min_overlap tried
MaxDocs == 2          \* longest docs list handed to build_index on its own
MaxNow == 1           \* the clock stops ticking here (milliseconds)
NumRuns == 2          \* concurrent runs in SpecConc

(***************************************************************************)
(* Text helpers.                                                           *)
(***************************************************************************)
\* the characters str.lower() changes
LowerMap ==
    ("A" :> "a") @@ ("B" :> "b") @@ ("C" :> "c") @@ ("D" :> "d") @@ ("E" :> "e") @@
    ("F" :> "f") @@ ("G" :> "g") @@ ("H" :> "h") @@ ("I" :> "i") @@ ("J" :> "j") @@
    ("K" :> "k") @@ ("L" :> "l") @@ ("M" :> "m") @@ ("N" :> "n") @@ ("O" :> "o") @@
    ("P" :> "p") @@ ("Q" :> "q") @@ ("R" :> "r") @@ ("S" :> "s") @@ ("T" :> "t") @@
    ("U" :> "u") @@ ("V" :> "v") @@ ("W" :> "w") @@ ("X" :> "x") @@ ("Y" :> "y") @@
    ("Z" :> "z")

\* str.lower() on one character
LowerChar(ch) == IF ch \in DOMAIN LowerMap THEN LowerMap[ch] ELSE ch

\* str.lower()
Lower(s) == [i \in 1..Len(s) |-> LowerChar(s[i])]

LowerLetters ==
    {"a","b","c","d","e","f","g","h","i","j","k","l","m",
     "n","o","p","q","r","s","t","u","v","w","x","y","z"}

UpperLetters ==
    {"A","B","C","D","E","F","G","H","I","J","K","L","M",
     "N","O","P","Q","R","S","T","U","V","W","X","Y","Z"}

Digits == {"0","1","2","3","4","5","6","7","8","9"}

\* the character class [A-Za-z0-9\-]
TokenChars == LowerLetters \cup UpperLetters \cup Digits \cup {"-"}

IsTokenChar(ch) == ch \in TokenChars

\* the characters str.strip() removes
Whitespace == {" ", "\n", "\t", "\r"}

\* not txt.strip()
IsBlank(s) == \A i \in 1..Len(s) : s[i] \in Whitespace

\* s[:n]
Prefix(s, n) == SubSeq(s, 1, IF Len(s) < n THEN Len(s) ELSE n)

\* t in text  (substring test on str)
Contains(t, text) ==
    \E i \in 0..(Len(text) - Len(t)) : SubSeq(text, i + 1, i + Len(t)) = t

\* re.findall(r"[A-Za-z0-9\-]+", s): the maximal runs of token characters
RECURSIVE FindAll(_, _, _, _)
FindAll(s, i, cur, acc) ==
    IF i > Len(s)
    THEN IF cur = <<>> THEN acc ELSE Append(acc, cur)
    ELSE IF IsTokenChar(s[i])
         THEN FindAll(s, i + 1, Append(cur, s[i]), acc)
         ELSE FindAll(s, i + 1, <<>>, IF cur = <<>> THEN acc ELSE Append(acc, cur))

\* [x for x in seq if keep(x)]
RECURSIVE KeepLong(_)
KeepLong(ts) ==
    IF ts = <<>> THEN <<>>
    ELSE IF Len(Head(ts)) > 3 THEN <<Head(ts)>> \o KeepLong(Tail(ts))
         ELSE KeepLong(Tail(ts))

\* toks=[t for t in re.findall(r"[A-Za-z0-9\-]+", c.lower()) if len(t)>3]
Toks(c) == KeepLong(FindAll(Lower(c), 1, <<>>, <<>>))

(***************************************************************************)
(* Python dict access.                                                     *)
(***************************************************************************)
\* d.get(k, default)
Get(d, k, default) == IF k \in DOMAIN d THEN d[k] ELSE default

\* truthiness of an optional string (None and "" are falsy)
Truthy(u) == u /= NONE /\ u /= ""

(***************************************************************************)
(* verify_claims_tool  (tools.py 271-287)                                  *)
(***************************************************************************)
\* text=(s.get('text','') or '').lower()
SourceText(s) == Lower(Get(s, "text", <<>>))

\* overlap=sum(1 for t in toks if t in text)
Overlap(toks, text) == Cardinality({i \in 1..Len(toks) : Contains(toks[i], text)})

\* url=s.get('url') or (s.get('metadata') or {}).get('url')
SourceUrl(s) ==
    LET u == Get(s, "url", NONE)
    IN  IF Truthy(u) THEN u
        ELSE IF "metadata" \in DOMAIN s THEN Get(s.metadata, "url", NONE) ELSE NONE

\* if overlap>overlap_max:
BetterWrong(overlap, overlap_max) == overlap >= overlap_max
Better(overlap, overlap_max) == overlap > overlap_max

\* if overlap>=min_overlap:
MeetsWrong(overlap, min_overlap) == overlap = min_overlap
MeetsStrict(overlap, min_overlap) == overlap > min_overlap
Meets(overlap, min_overlap) == overlap >= min_overlap

\* verdict=False; url=None; overlap_max=0
VerifyStart == [verdict |-> FALSE, url |-> NONE, overlap_max |-> 0]

\* the body of `for s in sources:` (lines 280-285)
VerifyStep(acc, s, toks, min_overlap) ==
    LET overlap == Overlap(toks, SourceText(s))
        better == Better(overlap, acc.overlap_max)
    IN  [verdict |-> acc.verdict \/ Meets(overlap, min_overlap),
         url |-> IF better THEN SourceUrl(s) ELSE acc.url,
         overlap_max |-> IF better THEN overlap ELSE acc.overlap_max]

RECURSIVE VerifyLoop(_, _, _, _)
VerifyLoop(acc, sources, toks, min_overlap) ==
    IF sources = <<>> THEN acc
    ELSE VerifyLoop(VerifyStep(acc, Head(sources), toks, min_overlap),
                    Tail(sources), toks, min_overlap)

\* f"overlap={overlap_max}"
Note(n) == <<"overlap=", n>>

\* the body of `for c in claims:` (lines 277-286)
VerifyOne(c, sources, min_overlap) ==
    LET r == VerifyLoop(VerifyStart, sources, Toks(c), min_overlap)
    IN  [claim |-> c, verdict |-> r.verdict, evidence_url |-> r.url,
         note |-> Note(r.overlap_max)]

verify_claims_tool(claims, sources, min_overlap) ==
    [i \in 1..Len(claims) |-> VerifyOne(claims[i], sources, min_overlap)]

(***************************************************************************)
(* Inputs of verify_claims_tool called on its own.                         *)
(***************************************************************************)
\* all sequences over S of length at most n
SeqsUpTo(S, n) == UNION {[1..k -> S] : k \in 0..n}

ClaimSalesGrew == <<"S","a","l","e","s"," ","g","r","e","w"," ","i","n"," ","2","0","2","4">>
ClaimShort == <<"U","p"," ","5","%">>
ClaimDup == <<"G","r","e","w",","," ","g","r","e","w">>
ClaimHyphen == <<"N","e","t","-","l","o","s","s"," ","2","0","2","4">>

ClaimPool == {ClaimSalesGrew, ClaimShort, ClaimDup, ClaimHyphen}

SourcePool ==
    { [url |-> "u1", title |-> "t1", text |-> <<"S","A","L","E","S"," ","G","R","E","W"," ","2","0","2","4">>],
      [url |-> "u2", title |-> "t2", text |-> <<"s","a","l","e","s"," ","f","e","l","l">>],
      [url |-> "", title |-> "", text |-> <<"r","e","g","r","e","w"," ","2","0","2","4">>],
      [text |-> <<"n","e","t","-","l","o","s","s"," ","g","r","e","w">>, metadata |-> [url |-> "m4", title |-> "t4"]],
      [url |-> "u5", title |-> "t5"] }

InitIdle ==
    /\ calls = <<>>
    /\ INDEX_REG = <<>>
    /\ environ = NONE
    /\ now = 0
    /\ files = <<>>
    /\ builds = <<>>
    /\ pc = <<>>
    /\ mode = <<>>
    /\ state = <<>>
    /\ local = <<>>
    /\ invoked = <<>>
    /\ passed = <<>>
    /\ observed = <<>>
    /\ cause = <<>>
    /\ response = <<>>

InitVerify ==
    /\ vclaims \in SeqsUpTo(ClaimPool, MaxClaims)
    /\ vsources \in SeqsUpTo(SourcePool, MaxSources)
    /\ vres = <<>>
    /\ InitIdle

\* one call verify_claims_tool(claims, sources, min_overlap)
Verify(m) ==
    /\ m \notin DOMAIN vres
    /\ Cardinality(DOMAIN vres) < 2      \* two thresholds are compared at a time
    /\ vres' = vres @@ (m :> verify_claims_tool(vclaims, vsources, m))
    /\ UNCHANGED <<vclaims, vsources, calls, procVars, runVars>>

NextVerify == \E m \in 0..MaxMinOverlap : Verify(m)

SpecVerify == InitVerify /\ [][NextVerify]_vars

(***************************************************************************)
(* Claims about verify_claims_tool (checked under SpecVerify).             *)
(***************************************************************************)
\* the overlap count of claim c against source s, as the claims define it
OverlapOf(c, s) == Overlap(Toks(c), SourceText(s))

\* the maximum overlap count over all sources, 0 when there are none
MaxOverlap(c, sources) ==
    LET S == {OverlapOf(c, sources[j]) : j \in 1..Len(sources)} \cup {0}
    IN  CHOOSE n \in S : \A k \in S : k <= n

\* the calls made so far, one per (min_overlap, claim index)
Calls == {<<m, i>> \in (DOMAIN vres) \X (1..Len(vclaims)) : TRUE}

\* C5 (as stated): for every claim, source list (also the empty one) and
\* min_overlap >= 0, the verdict is true iff the maximum overlap over all sources
\* (0 without sources), which is the overlap the result records, is >= min_overlap.
C5_VerdictIffMaxMeets ==
    \A call \in Calls :
        LET m == call[1]
            r == vres[m][call[2]]
            best == MaxOverlap(vclaims[call[2]], vsources)
        IN  /\ r.note = Note(best)
            /\ r.verdict <=> (best >= m)

\* C5 (amended): the verdict is true iff at least one source has an overlap count
\* >= min_overlap, i.e. iff the source list is non-empty and the maximum overlap
\* is >= min_overlap; the recorded overlap is the maximum (0 without sources).
C5_VerdictIffSomeSourceMeets ==
    \A call \in Calls :
        LET m == call[1]
            c == vclaims[call[2]]
            r == vres[m][call[2]]
            best == MaxOverlap(c, vsources)
        IN  /\ r.note = Note(best)
            /\ r.verdict <=> (\E j \in 1..Len(vsources) : OverlapOf(c, vsources[j]) >= m)
            /\ r.verdict <=> (vsources /= <<>> /\ best >= m)

\* a claim verified true at min_overlap 0 and false at min_overlap 2, and a call
\* with min_overlap 0 and no sources
C5_Witness ==
    /\ {0, 2} \subseteq DOMAIN vres
    /\ \E i \in 1..Len(vclaims) : vres[0][i].verdict /\ ~vres[2][i].verdict

\* C6 (as stated): for a non-empty source list, evidence_url is the URL of a
\* source whose overlap count equals the maximum, whatever min_overlap is, also
\* when the verdict is false and when the maximum is 0; the recorded overlap is
\* the maximum.
C6_EvidenceIsABestSource ==
    \A call \in Calls :
        LET c == vclaims[call[2]]
            r == vres[call[1]][call[2]]
        IN  vsources /= <<>> =>
              /\ r.note = Note(MaxOverlap(c, vsources))
              /\ \E j \in 1..Len(vsources) :
                    /\ OverlapOf(c, vsources[j]) = MaxOverlap(c, vsources)
                    /\ r.evidence_url = SourceUrl(vsources[j])

\* the first source, in list order, whose overlap count equals the maximum
FirstBest(c, sources) ==
    CHOOSE j \in 1..Len(sources) :
        /\ OverlapOf(c, sources[j]) = MaxOverlap(c, sources)
        /\ \A k \in 1..(j - 1) : OverlapOf(c, sources[k]) < MaxOverlap(c, sources)

\* C6 (amended): when the maximum overlap is > 0, evidence_url is the URL of the
\* first source, in list order, whose overlap count equals the maximum (its url,
\* else its metadata url, none when it has neither), whatever min_overlap and the
\* verdict are; when the maximum is 0, evidence_url is none; the recorded overlap
\* is the maximum.
C6_EvidenceIsFirstBestOrNone ==
    \A call \in Calls :
        LET c == vclaims[call[2]]
            r == vres[call[1]][call[2]]
            best == MaxOverlap(c, vsources)
        IN  /\ r.note = Note(best)
            /\ best > 0 => r.evidence_url = SourceUrl(vsources[FirstBest(c, vsources)])
            /\ best = 0 => r.evidence_url = NONE

\* a false verdict that still names its best source, with two sources tied for
\* the maximum
C6_Witness ==
    \E call \in Calls :
        LET c == vclaims[call[2]]
            r == vres[call[1]][call[2]]
        IN  /\ ~r.verdict
            /\ r.evidence_url /= NONE
            /\ Len(vsources) = 2
            /\ OverlapOf(c, vsources[1]) = OverlapOf(c, vsources[2])

\* C7: verify is monotonic in min_overlap: for m1 <= m2 every claim verified true
\* at m2 is verified true at m1, and evidence_url and the recorded overlap are
\* the same at m1 and m2.
C7_MonotonicInMinOverlap ==
    \A m1 \in DOMAIN vres : \A m2 \in DOMAIN vres :
        m1 <= m2 =>
            \A i \in 1..Len(vclaims) :
                /\ vres[m2][i].verdict => vres[m1][i].verdict
                /\ vres[m2][i].evidence_url = vres[m1][i].evidence_url
                /\ vres[m2][i].note = vres[m1][i].note

\* raising the threshold flipped a verdict from true to false
C7_Witness ==
    \E m1 \in DOMAIN vres : \E m2 \in DOMAIN vres :
        /\ m1 < m2
        /\ \E i \in 1..Len(vclaims) : vres[m1][i].verdict /\ ~vres[m2][i].verdict

(***************************************************************************)
(* build_index / search_index and the registry _INDEX_REG                  *)
(* (tools.py 219-252).  A FAISS store is modelled as the list of the       *)
(* documents it was built from.  The embeddings provider is outside the    *)
(* repository; prov is what it does during the call:                       *)
(*   "ok"          the client is constructed and the embedding call works  *)
(*   "no_client"   OpenAIEmbeddings() raises (no API key)                  *)
(*   "embed_fails" FAISS.from_documents raises (the provider call fails)   *)
(***************************************************************************)
Providers == {"ok", "no_client", "embed_fails"}

\* txt = (d.get("text") or "")[:3000]
IndexPrefix == 3000

DocText(d) == Prefix(Get(d, "text", <<>>), IndexPrefix)

\* if not txt.strip(): continue
KeepDocWrong(txt) == txt /= <<>>
KeepDoc(txt) == ~IsBlank(txt)

\* Document(page_content=txt, metadata={"url": ..., "title": ...})
LangDoc(d) ==
    [page_content |-> DocText(d),
     metadata |-> [url |-> Get(d, "url", ""), title |-> Get(d, "title", "")]]

\* the loop of lines 231-237
RECURSIVE LangDocs(_)
LangDocs(docs) ==
    IF docs = <<>> THEN <<>>
    ELSE IF KeepDoc(DocText(Head(docs)))
         THEN <<LangDoc(Head(docs))>> \o LangDocs(Tail(docs))
         ELSE LangDocs(Tail(docs))

\* key = f"idx_{int(time.time()*1000)}"   (t: the clock in milliseconds)
IndexKey(t) == <<"idx_", t>>

\* what a tool call does: it returns a value or raises
Return(v) == [kind |-> "return", value |-> v]
Raise(e) == [kind |-> "raise", error |-> e]

\* build_index(docs) at time t with registry reg: what it returns or raises
build_index(docs, prov, t) ==
    IF docs = <<>> THEN Return([ok |-> FALSE, msg |-> "no docs"])
    ELSE IF prov = "no_client" THEN Raise("OpenAIEmbeddings")
    ELSE IF LangDocs(docs) = <<>> THEN Return([ok |-> FALSE, msg |-> "no valid text"])
    ELSE IF prov = "embed_fails" THEN Raise("FAISS.from_documents")
    ELSE Return([ok |-> TRUE, key |-> IndexKey(t), size |-> Len(LangDocs(docs))])

Succeeded(out) == out.kind = "return" /\ out.value.ok

\* _INDEX_REG[key] = store   (only on the path that reaches line 242)
RegistryAfter(reg, docs, out) ==
    IF Succeeded(out) THEN (out.value.key :> LangDocs(docs)) @@ reg ELSE reg

\* the entry the model logs for one build_index call
BuildEntry(r, docs, prov, t, reg) ==
    LET out == build_index(docs, prov, t)
    IN  [by |-> r, docs |-> docs, prov |-> prov, at |-> t, out |-> out,
         before |-> reg, after |-> RegistryAfter(reg, docs, out)]

(***************************************************************************)
(* build_index called on its own (SpecBuild): one call on a list of        *)
(* documents drawn from DocPool, on a registry that is empty or already    *)
(* holds an entry.                                                         *)
(***************************************************************************)
\* n blanks followed by body
Pad(n, body) == [i \in 1..n |-> " "] \o body

DocPool ==
    { [url |-> "u1", title |-> "t1", text |-> <<"s","a","l","e","s"," ","g","r","e","w">>],
      [url |-> "u2", title |-> "t2", text |-> <<" ","\n","\t">>],
      [url |-> "u3", title |-> "", text |-> <<>>],
      [url |-> "u4", title |-> "t4", text |-> Pad(IndexPrefix, <<"x">>)],
      [url |-> "u5", title |-> "t5", text |-> Pad(IndexPrefix - 1, <<"x">>)] }

OldStore == <<[page_content |-> <<"o","l","d">>, metadata |-> [url |-> "u0", title |-> "t0"]]>>

InitBuild ==
    /\ vclaims = <<>>
    /\ vsources \in SeqsUpTo(DocPool, MaxDocs)
    /\ vres = <<>>
    /\ calls = <<>>
    /\ INDEX_REG \in {<<>>, (IndexKey(0) :> OldStore)}
    /\ environ = NONE
    /\ now \in 0..MaxNow
    /\ files = <<>>
    /\ builds = <<>>
    /\ pc = <<>>
    /\ mode = <<>>
    /\ state = <<>>
    /\ local = <<>>
    /\ invoked = <<>>
    /\ passed = <<>>
    /\ observed = <<>>
    /\ cause = <<>>
    /\ response = <<>>

\* one call build_index(vsources)
Build(prov) ==
    /\ builds = <<>>
    /\ LET e == BuildEntry(0, vsources, prov, now, INDEX_REG)
       IN  /\ builds' = Append(builds, e)
           /\ INDEX_REG' = e.after
    /\ UNCHANGED <<toolVars, environ, now, files, runVars>>

NextBuild == \E prov \in Providers : Build(prov)

SpecBuild == InitBuild /\ [][NextBuild]_vars

\* every document's text is blank after truncation to its bounded prefix
AllBlank(docs) ==
    \A i \in 1..Len(docs) : IsBlank(Prefix(Get(docs[i], "text", <<>>), IndexPrefix))

\* the number of documents whose truncated text is not blank
NonBlankCount(docs) ==
    Cardinality({i \in 1..Len(docs) :
                    ~IsBlank(Prefix(Get(docs[i], "text", <<>>), IndexPrefix))})

\* the call returned the failure result and left the registry as it was
FailedClean(b) ==
    b.out.kind = "return" /\ ~b.out.value.ok /\ b.after = b.before

\* the call raised and left the registry as it was
RaisedClean(b) == b.out.kind = "raise" /\ b.after = b.before

\* the call succeeded, registered its index under the key it returned and
\* touched no other key, and reports the number of non-blank documents
SucceededWith(b) ==
    /\ Succeeded(b.out)
    /\ b.out.value.key \in DOMAIN b.after
    /\ \A k \in DOMAIN b.before : k /= b.out.value.key =>
          k \in DOMAIN b.after /\ b.after[k] = b.before[k]
    /\ DOMAIN b.after = DOMAIN b.before \cup {b.out.value.key}
    /\ Len(b.after[b.out.value.key]) = NonBlankCount(b.docs)
    /\ b.out.value.size = NonBlankCount(b.docs)

Runs == 1..NumRuns

\* Optional[str] for texts: None, or a text
None == [none |-> TRUE]
Some(v) == [none |-> FALSE, v |-> v]

\* a or b, for an optional text a and a text b
OrText(a, b) == IF a.none \/ a.v = <<>> THEN b ELSE a.v

\* a or b, for atomic strings
OrStr(a, b) == IF a = "" THEN b ELSE a

(***************************************************************************)
(* ToolNode and the nodes' _parse (researcher.py 9-19, curator.py 10-20,   *)
(* fact_checker.py 10-20, writer.py 10-20).  ToolNode puts what the tool   *)
(* returned into the message content as JSON, and json.loads gives the     *)
(* value back (the values here are lists and dicts of strings, numbers,    *)
(* booleans and None, which the round trip keeps); when the tool raised,   *)
(* ToolNode's content is the error text, which neither json.loads nor      *)
(* ast.literal_eval decodes, and _parse returns it as a str.  A parsed     *)
(* value carries its Python type.                                          *)
(***************************************************************************)
PyList(v) == [t |-> "list", v |-> v]
PyDict(v) == [t |-> "dict", v |-> v]
PyStr(v) == [t |-> "str", v |-> v]

\* _parse(ToolNode([tool]).invoke(...)["messages"][0].content), tool -> List
ParseList(out) ==
    IF out.kind = "return" THEN PyList(out.value) ELSE PyStr(<<"Error: ", out.error>>)

\* _parse(ToolNode([tool]).invoke(...)["messages"][0].content), tool -> Dict
ParseDict(out) ==
    IF out.kind = "return" THEN PyDict(out.value) ELSE PyStr(<<"Error: ", out.error>>)

\* bool(x) of a parsed value
PyTruthy(x) ==
    CASE x.t = "list" -> x.v /= <<>>
      [] x.t = "dict" -> DOMAIN x.v /= {}
      [] OTHER -> TRUE

\* x or []
OrList(x) == IF PyTruthy(x) THEN x ELSE PyList(<<>>)

\* x or {}
OrDict(x) == IF PyTruthy(x) THEN x ELSE PyDict(<<>>)

(***************************************************************************)
(* web_search (tools.py 49-81).  ddg is what _ddg.invoke does and ddgs     *)
(* what DDGS().text does:                                                  *)
(*   [kind |-> "absent"]            the import failed (_ddg / DDGS is None)*)
(*   [kind |-> "raise", error]      the call raised                        *)
(*   [kind |-> "list", items]       a list of raw hits                     *)
(*   [kind |-> "dict", item]        one raw hit                            *)
(*   [kind |-> "other"]             anything else (DuckDuckGoSearchRun     *)
(*                                  answers with one string)               *)
(***************************************************************************)
\* r.get(k1) or r.get(k2) or ... or ""   (snippets are texts)
FirstStr(r, keys) ==
    LET hit == {i \in 1..Len(keys) : keys[i] \in DOMAIN r /\ r[keys[i]] /= ""}
    IN  IF hit = {} THEN ""
        ELSE r[keys[CHOOSE i \in hit : \A j \in hit : i <= j]]

FirstText(r, keys) ==
    LET hit == {i \in 1..Len(keys) : keys[i] \in DOMAIN r /\ r[keys[i]] /= <<>>}
    IN  IF hit = {} THEN <<>>
        ELSE r[keys[CHOOSE i \in hit : \A j \in hit : i <= j]]

\* norm(r)
norm(r) ==
    [title |-> FirstStr(r, <<"title", "t">>),
     snippet |-> FirstText(r, <<"snippet", "body", "abstract">>),
     link |-> FirstStr(r, <<"link", "href", "url">>)]

NormAll(items) == [i \in 1..Len(items) |-> norm(items[i])]

\* lines 59-67
FromDdg(ddg) ==
    CASE ddg.kind = "list" -> NormAll(ddg.items)
      [] ddg.kind = "dict" -> <<norm(ddg.item)>>
      [] ddg.kind = "raise" ->
            <<[title |-> "ddg_error", snippet |-> ddg.error, link |-> ""]>>
      [] OTHER -> <<>>

\* len([x for x in out if x.get("link")])
LinkCount(out) == Cardinality({i \in 1..Len(out) : out[i].link /= ""})

\* lines 68-74
FromDdgs(out, ddgs) ==
    IF ddgs.kind = "absent" \/ ~(LinkCount(out) < 3) THEN out
    ELSE CASE ddgs.kind = "list" -> out \o NormAll(ddgs.items)
           [] ddgs.kind = "raise" ->
                 Append(out, [title |-> "ddgs_error", snippet |-> ddgs.error, link |-> ""])
           [] OTHER -> out

\* key=x.get("link") or x.get("title")
DedupeKeyWrong(x) == x.link
DedupeKey(x) == OrStr(x.link, x.title)

\* lines 76-80
RECURSIVE Dedupe(_, _)
Dedupe(out, seen) ==
    IF out = <<>> THEN <<>>
    ELSE LET key == DedupeKey(Head(out))
         IN  IF key /= "" /\ key \notin seen
             THEN <<Head(out)>> \o Dedupe(Tail(out), seen \cup {key})
             ELSE Dedupe(Tail(out), seen)

web_search(ddg, ddgs, max_results) ==
    Return(Prefix(Dedupe(FromDdgs(FromDdg(ddg), ddgs), {}), max_results))

(***************************************************************************)
(* http_fetch (tools.py 83-94).  page is what requests.get does for the    *)
(* url: [ok |-> FALSE, error] or [ok |-> TRUE, status, title, text], the   *)
(* title being the text of the page's <title> element (the regular         *)
(* expression of _extract_title is not modelled).                          *)
(***************************************************************************)
\* html = r.text[:60000]
FetchPrefix == 60000

http_fetch(url, page) ==
    IF url = "" THEN Return([url |-> "", status |-> 0, title |-> "", text |-> <<>>])
    ELSE IF page.ok
         THEN Return([url |-> url, status |-> page.status, title |-> page.title,
                      text |-> Prefix(page.text, FetchPrefix)])
         ELSE Return([url |-> url, status |-> 0, error |-> page.error,
                      title |-> "", text |-> <<>>])

(***************************************************************************)
(* What the outside world can answer (the inputs of the runs).             *)
(***************************************************************************)
Queries == {<<"N","V","D","A"," ","o","u","t","l","o","o","k">>, <<"P","/","E">>}
Tickers == {None, Some(<<"N","V","D","A">>)}
Modes == {"strict", "normal", "relaxed"}

RawHits ==
    << [title |-> "Sales up", href |-> "u1", body |-> <<"s","a","l","e","s"," ","g","r","e","w">>],
       [title |-> "Loss", href |-> "u2", body |-> <<"n","e","t","-","l","o","s","s">>],
       [title |-> "Sales up again", href |-> "u1", body |-> <<"a","g","a","i","n">>] >>

\* the search providers: both missing, both failing, or DDGS answering
SearchOutcomes ==
    { [ddg |-> [kind |-> "absent"], ddgs |-> [kind |-> "absent"]],
      [ddg |-> [kind |-> "raise", error |-> <<"t","i","m","e","o","u","t">>],
       ddgs |-> [kind |-> "raise", error |-> <<"t","i","m","e","o","u","t">>]],
      [ddg |-> [kind |-> "other"], ddgs |-> [kind |-> "list", items |-> RawHits]] }

\* the pages behind the urls
PageOf(url) ==
    IF url = "u1"
    THEN [ok |-> TRUE, status |-> 200, title |-> "Sales", text |-> <<"S","a","l","e","s"," ","g","r","e","w"," ","i","n"," ","2","0","2","4">>]
    ELSE [ok |-> TRUE, status |-> 200, title |-> "", text |-> <<"N","e","t","-","l","o","s","s"," ","2","0","2","4"," ","\n">>]

PageDown == [ok |-> FALSE, error |-> <<"t","i","m","e","o","u","t">>]

\* the sets of urls whose fetch fails
FetchOutcomes == {{}, {"u1"}, {"u1", "u2"}}

(***************************************************************************)
(* The graph (graph/builder.py 6-17): entry point and edges.               *)
(***************************************************************************)
\* g.set_entry_point("researcher")
EntryPoint == "researcher"

\* g.add_edge(...)
EdgeLoop(n) ==
    CASE n = "researcher" -> "curator"
      [] n = "curator" -> "fact_checker"
      [] n = "fact_checker" -> "curator"
      [] n = "writer" -> "END"
Edge(n) ==
    CASE n = "researcher" -> "curator"
      [] n = "curator" -> "fact_checker"
      [] n = "fact_checker" -> "writer"
      [] n = "writer" -> "END"

\* d[k] = v
With(d, k, v) == (k :> v) @@ d

\* state.setdefault('trace', []).append(ev)
Traced(st, ev) == With(st, "trace", Append(Get(st, "trace", <<>>), ev))

Enter(node) == <<"enter", node>>
Exit(node) == <<"exit", node>>

\* the node ran to its end: the graph follows its edge (log: what to add to the
\* run's log of node entries and exits)
Finish(r, node, st, log) ==
    /\ pc' = [pc EXCEPT ![r] = Edge(node)]
    /\ state' = [state EXCEPT ![r] = st]
    /\ invoked' = [invoked EXCEPT ![r] = @ \o log \o <<Exit(node)>>]
    /\ cause' = cause

\* the node raised: graph.invoke raises to its caller
Abort(r, node, st, log, why) ==
    /\ pc' = [pc EXCEPT ![r] = "raised"]
    /\ state' = [state EXCEPT ![r] = st]
    /\ invoked' = [invoked EXCEPT ![r] = @ \o log]
    /\ cause' = [cause EXCEPT ![r] = why]

(***************************************************************************)
(* main.run_research, up to graph.invoke (main.py 13-33)                   *)
(***************************************************************************)
\* os.environ['MIN_EVIDENCE_OVERLAP'] = ...   (lines 19-30)
EnvForMode(md) == IF md = "strict" THEN "2" ELSE "1"

Request(r, md, q, t) ==
    /\ pc[r] = "idle"
    /\ environ' = EnvForMode(md)
    /\ mode' = [mode EXCEPT ![r] = md]
    /\ state' = [state EXCEPT ![r] = [query |-> q, ticker |-> t]]
    /\ pc' = [pc EXCEPT ![r] = EntryPoint]
    /\ UNCHANGED <<toolVars, INDEX_REG, now, files, builds,
                   local, invoked, passed, observed, cause, response>>

\* time passes
Tick ==
    /\ now < MaxNow
    /\ now' = now + 1
    /\ UNCHANGED <<toolVars, INDEX_REG, environ, files, builds, runVars>>

(***************************************************************************)
(* researcher.node (researcher.py 21-50)                                   *)
(***************************************************************************)
\* url = h.get("link") or h.get("url") or ""   for the hits that have one
RECURSIVE FetchUrls(_)
FetchUrls(hits) ==
    IF hits = <<>> THEN <<>>
    ELSE LET url == FirstStr(Head(hits), <<"link", "url">>)
         IN  IF url = "" THEN FetchUrls(Tail(hits))
             ELSE <<url>> \o FetchUrls(Tail(hits))

\* docs.append({"url": d.get("url",""), "title": ..., "text": ...})
DocOfFetch(out) ==
    LET d == ParseDict(out).v
    IN  [url |-> Get(d, "url", ""), title |-> Get(d, "title", ""),
         text |-> Get(d, "text", <<>>)]

\* line 46
PseudoDoc(hits) ==
    IF hits = <<>> THEN [url |-> "", title |-> "", text |-> <<>>]
    ELSE [url |-> hits[1].link, title |-> hits[1].title, text |-> hits[1].snippet]

Researcher(r, so, down) ==
    /\ pc[r] = "researcher"
    /\ LET st0 == Traced(state[r], [node |-> "researcher", t |-> now])
           q == IF Get(st0, "query", <<>>) /= <<>> THEN st0.query
                ELSE OrText(Get(st0, "ticker", None), <<>>)
           hits == OrList(ParseList(web_search(so.ddg, so.ddgs, 10)))
           list == IF hits.t = "list" THEN hits.v ELSE <<>>
           urls == FetchUrls(Prefix(list, 6))
           fetched == [i \in 1..Len(urls) |->
                          DocOfFetch(http_fetch(urls[i],
                              IF urls[i] \in down THEN PageDown ELSE PageOf(urls[i])))]
       IN  /\ IF urls = <<>> /\ hits.t /= "list"
              THEN Abort(r, "researcher", st0, <<Enter("researcher")>>, "hits[0].get")
              ELSE LET docs == IF urls /= <<>> THEN fetched ELSE <<PseudoDoc(list)>>
                       st1 == With(With(st0, "web_results", list), "docs", docs)
                   IN  Finish(r, "researcher",
                              Traced(st1, [node |-> "researcher:done", t |-> now,
                                           docs |-> Len(docs)]),
                              <<Enter("researcher")>>)
           /\ observed' = [observed EXCEPT ![r] = With(@, "fetched", fetched)]
    /\ UNCHANGED <<toolVars, procVars, mode, local, passed, response>>

(***************************************************************************)
(* search_index (tools.py 245-252).  sim is what similarity_search does:   *)
(* "raise" when the provider cannot embed the query, else the order in     *)
(* which it ranks the store's documents ("fwd": as stored, "rev":          *)
(* reversed).                                                              *)
(***************************************************************************)
Reverse(q) == [i \in 1..Len(q) |-> q[Len(q) + 1 - i]]

SimOutcomes == {"fwd", "rev", "raise"}

search_index(reg, key, sim, k) ==
    IF key \notin DOMAIN reg THEN Return(<<>>)
    ELSE IF sim = "raise" THEN Raise("similarity_search")
    ELSE LET ranked == IF sim = "rev" THEN Reverse(reg[key]) ELSE reg[key]
             top == Prefix(ranked, k)
         IN  Return([i \in 1..Len(top) |->
                        [text |-> top[i].page_content, metadata |-> top[i].metadata]])

(***************************************************************************)
(* summarize_docs (summarizer.py 13-28).  llm is what the language model   *)
(* does: [kind |-> "raise"] or [kind |-> "text", text].  The prompt file   *)
(* is there.  A summary is [head, bullets]: the model's answer with no     *)
(* bullets, or the fixed first line and one bullet per document.           *)
(***************************************************************************)
\* s.strip()
RECURSIVE LStrip(_, _)
LStrip(s, chars) ==
    IF s /= <<>> /\ Head(s) \in chars THEN LStrip(Tail(s), chars) ELSE s

StripSet(s, chars) == Reverse(LStrip(Reverse(LStrip(s, chars)), chars))

Strip(s) == StripSet(s, Whitespace)

\* s.replace("\n"," ")
NoNewlines(s) == [i \in 1..Len(s) |-> IF s[i] = "\n" THEN " " ELSE s[i]]

SummaryHeader == <<"K","e","y"," ","p","o","i","n","t","s"," ","f","r","o","m"," ","r","e","t","r","i","e","v","e","d"," ","s","o","u","r","c","e","s"," ","(","h","e","u","r","i","s","t","i","c"," ","s","u","m","m","a","r","y",")",":","\n">>

\* f"- {title} — {snip} [{url}]"
Bullet(d) ==
    [title |-> Get(d, "title", ""),
     snip |-> NoNewlines(Prefix(Get(d, "text", <<>>), 280)),
     url |-> Get(d, "url", "")]

FallbackSummary(docs) ==
    LET top == Prefix(docs, 5)
    IN  [head |-> SummaryHeader, bullets |-> [i \in 1..Len(top) |-> Bullet(top[i])]]

summarize_docs(docs, llm) ==
    IF llm.kind = "text" /\ Strip(llm.text) /= <<>>
    THEN [head |-> Strip(llm.text), bullets |-> <<>>]
    ELSE FallbackSummary(docs)

\* the summary is the empty string
SummaryIsEmpty(sm) == sm.head = <<>> /\ sm.bullets = <<>>

SummaryOutcomes ==
    { [kind |-> "raise"],
      [kind |-> "text", text |-> <<" ","\n">>],
      [kind |-> "text", text |-> <<" ","S","a","l","e","s"," ","g","r","e","w"," ","i","n"," ","2","0","2","4",".","\n">>] }

(***************************************************************************)
(* curator.node (curator.py 22-42), in two steps: up to the build_index    *)
(* call, and from the search_index call on.                                *)
(***************************************************************************)
CuratorBuild(r, prov) ==
    /\ pc[r] = "curator"
    /\ local[r] = <<>>
    /\ LET st0 == Traced(state[r], [node |-> "curator", t |-> now])
           docs == Get(st0, "docs", <<>>)
           e == BuildEntry(r, docs, prov, now, INDEX_REG)
       IN  /\ builds' = Append(builds, e)
           /\ INDEX_REG' = e.after
           /\ local' = [local EXCEPT ![r] = <<OrDict(ParseDict(e.out))>>]
           /\ state' = [state EXCEPT ![r] = st0]
    /\ invoked' = [invoked EXCEPT ![r] = Append(@, Enter("curator"))]
    /\ UNCHANGED <<toolVars, environ, now, files, pc, mode, passed, observed, cause,
                   response>>

\* line 38
DocOfHitWrong(h) ==
    [url |-> Get(h, "url", ""), title |-> Get(h, "title", ""), text |-> Get(h, "text", <<>>)]
DocOfHit(h) ==
    [url |-> Get(Get(h, "metadata", <<>>), "url", ""),
     title |-> Get(Get(h, "metadata", <<>>), "title", ""),
     text |-> Get(h, "text", <<>>)]

\* the search_index call of lines 32-35, when it is made
Searched(idx, reg, sim) ==
    IF idx.t = "dict" /\ Get(idx.v, "ok", FALSE) /\ "key" \in DOMAIN idx.v
    THEN search_index(reg, idx.v.key, sim, 6)
    ELSE [kind |-> "skipped"]

Selected(docs, idx, reg, sim) ==
    LET res == Searched(idx, reg, sim)
    IN  IF res.kind /= "skipped"
        THEN LET hits == OrList(ParseList(res))
             IN  IF hits.t = "list" /\ hits.v /= <<>>
                 THEN [i \in 1..Len(hits.v) |-> DocOfHit(hits.v[i])]
                 ELSE Prefix(docs, 6)
        ELSE Prefix(docs, 6)

CuratorSelect(r, sim, llm) ==
    /\ pc[r] = "curator"
    /\ local[r] /= <<>>
    /\ LET st0 == state[r]
           docs == Get(st0, "docs", <<>>)
           selected == Selected(docs, local[r][1], INDEX_REG, sim)
           st1 == With(With(st0, "docs", selected), "summary", summarize_docs(selected, llm))
       IN  Finish(r, "curator",
                  Traced(st1, [node |-> "curator:done", t |-> now, docs |-> Len(selected)]),
                  <<>>)
    /\ local' = [local EXCEPT ![r] = <<>>]
    /\ observed' = [observed EXCEPT ![r] =
                        With(With(@, "searched", Searched(local[r][1], INDEX_REG, sim)),
                             "llm", llm)]
    /\ UNCHANGED <<toolVars, procVars, mode, passed, response>>

(***************************************************************************)
(* extract_claims_tool (tools.py 255-269).  llm as for summarize_docs; the *)
(* prompt file is there.  The character U+2022 is written "bullet".        *)
(***************************************************************************)
\* txt.splitlines()
RECURSIVE SplitLines(_, _, _)
SplitLines(s, cur, acc) ==
    IF s = <<>> THEN (IF cur = <<>> THEN acc ELSE Append(acc, cur))
    ELSE IF Head(s) = "\n" THEN SplitLines(Tail(s), <<>>, Append(acc, cur))
         ELSE SplitLines(Tail(s), Append(cur, Head(s)), acc)

BulletMarks == {" ", "-", "bullet"}

\* [l.strip(" -•") for l in lines if l.strip()]
RECURSIVE ClaimLines(_)
ClaimLines(lines) ==
    IF lines = <<>> THEN <<>>
    ELSE IF Strip(Head(lines)) /= <<>>
         THEN <<StripSet(Head(lines), BulletMarks)>> \o ClaimLines(Tail(lines))
         ELSE ClaimLines(Tail(lines))

extract_claims_tool(llm, n) ==
    IF llm.kind = "text"
    THEN Return(Prefix(ClaimLines(SplitLines(llm.text, <<>>, <<>>)), n))
    ELSE Return(<<>>)

ClaimsOutcomes ==
    { [kind |-> "raise"],
      [kind |-> "text", text |-> <<"-"," ","S","a","l","e","s"," ","g","r","e","w"," ","i","n"," ","2","0","2","4","\n","\n","bullet"," ","U","p"," ","5","%","\n">>] }

(***************************************************************************)
(* fact_checker.node (fact_checker.py 22-38)                               *)
(***************************************************************************)
\* MIN_EVIDENCE_OVERLAP = int(os.getenv("MIN_EVIDENCE_OVERLAP","1"))  (config.py 23)
ConfigMinOverlap == 1

\* int(s)
IntOf(s) == CASE s = "1" -> 1 [] s = "2" -> 2

\* int(os.getenv('MIN_EVIDENCE_OVERLAP', str(MIN_EVIDENCE_OVERLAP)))
EnvMinOverlap(env) == IF env = NONE THEN ConfigMinOverlap ELSE IntOf(env)

FactChecker(r, llm) ==
    /\ pc[r] = "fact_checker"
    /\ LET st0 == Traced(state[r], [node |-> "fact_checker", t |-> now])
           docs == Get(st0, "docs", <<>>)
           claims == OrList(ParseList(extract_claims_tool(llm, 6)))
           m == EnvMinOverlap(environ)
           checked == OrList(ParseList(Return(verify_claims_tool(claims.v, docs, m))))
           st1 == With(With(st0, "claims", IF claims.t = "list" THEN claims.v ELSE <<>>),
                       "checked_claims", IF checked.t = "list" THEN checked.v ELSE <<>>)
       IN  /\ passed' = [passed EXCEPT ![r] = Append(@, m)]
           /\ Finish(r, "fact_checker",
                     Traced(st1, [node |-> "fact_checker:done", t |-> now,
                                  claims |-> Len(st1.checked_claims)]),
                     <<Enter("fact_checker")>>)
    /\ UNCHANGED <<toolVars, procVars, mode, local, observed, response>>

(***************************************************************************)
(* writer.node (writer.py 132-156).  kpiPage is what                       *)
(* extract_kpis_from_page finds in the concatenated document text and fb   *)
(* what kpi_web_fallback returns (values in hundredths); io tells which of *)
(* the two files the node writes itself can be written.  The charts are    *)
(* saved under OUTPUTS_DIR with the ticker (or the query) in the file      *)
(* name: saving fails when that name holds a path separator.               *)
(***************************************************************************)
KpiNames == {"p_e_ratio", "p_s_ratio", "gross_margin", "operating_margin"}

PageKpis ==
    { <<>>,
      [p_e_ratio |-> 3000, p_s_ratio |-> 500, gross_margin |-> 42, operating_margin |-> 20] }

FallbackKpis == { <<>>, [p_e_ratio |-> 2500] }

IoOutcomes ==
    { [sidecar |-> TRUE, report |-> TRUE],
      [sidecar |-> FALSE, report |-> TRUE],
      [sidecar |-> TRUE, report |-> FALSE] }

\* for kk, vv in k.items(): if vv is not None and kk not in results: results[kk] = vv
KeepFirst(results, k) == results @@ k

\* all(x in results for x in [the four KPI names])
AllKpis(results) == KpiNames \subseteq DOMAIN results

\* the loop `for h in hits_all:` of kpi_web_fallback (tools.py 196-207); found[i] is
\* what extract_kpis_from_page finds in the text of the i-th hit that has text
RECURSIVE FallbackLoop(_, _)
FallbackLoop(results, found) ==
    IF found = <<>> THEN results
    ELSE LET r1 == KeepFirst(results, Head(found))
         IN  IF AllKpis(r1) THEN r1 ELSE FallbackLoop(r1, Tail(found))

\* kpi_web_fallback (tools.py 183-212); yk is what _kpi_from_yfinance returns
kpi_web_fallback(found, yk) == FallbackLoop(<<>>, found) @@ yk

\* lines 139-143
WriterKpi(kpiPage, fb) ==
    IF KpiNames \subseteq DOMAIN kpiPage THEN kpiPage ELSE fb @@ kpiPage

\* int(time.time())   (t: the clock in milliseconds)
Seconds(t) == t \div 1000

\* os.path.join(OUTPUTS_DIR, f"{ticker}_proj_5y_{int(time.time())}.png")
ChartPath(which, tk, t) == [kind |-> which, name |-> tk, t |-> Seconds(t)]

\* f"sources_{sha1((q+str(time.time())).encode()).hexdigest()[:10]}.json"
SourcesPath(q, t) == [kind |-> "sources", name |-> q, t |-> t]

\* os.path.join(OUTPUTS_DIR, f"report_{int(time.time())}.html")
ReportPath(t) == [kind |-> "report", name |-> <<>>, t |-> Seconds(t)]

\* plt.savefig(path) can create the file
Saveable(tk) == \A i \in 1..Len(tk) : tk[i] /= "/"

\* price_projection_chart (tools.py 311-334)
price_projection_chart(tk, t) ==
    IF Saveable(tk)
    THEN Return([proj_5y |-> ChartPath("proj_5y", tk, t),
                 proj_10y |-> ChartPath("proj_10y", tk, t)])
    ELSE Raise("savefig")

\* the files under OUTPUTS_DIR after run r wrote paths
Written(fs, paths, r) == [p \in paths |-> r] @@ fs

\* what follows the attempt to write the report (lines 153-155)
AfterReportWriteWrong(r, st, ok, path, fs) ==
    /\ Finish(r, "writer", st, <<Enter("writer")>>)
    /\ files' = fs
AfterReportWrite(r, st, ok, path, fs) ==
    IF ok
    THEN /\ Finish(r, "writer", With(st, "report_html", path), <<Enter("writer")>>)
         /\ files' = Written(fs, {path}, r)
    ELSE /\ Abort(r, "writer", st, <<Enter("writer")>>, "report write")
         /\ files' = fs

Writer(r, kpiPage, fb, io) ==
    /\ pc[r] = "writer"
    /\ LET st0 == state[r]
           q == Get(st0, "query", <<>>)
           tk == OrText(Get(st0, "ticker", None), q)
           kpi == WriterKpi(kpiPage, fb)
           proj == OrDict(ParseDict(price_projection_chart(tk, now)))
       IN  /\ IF proj.t /= "dict"
              THEN /\ Abort(r, "writer", st0, <<Enter("writer")>>, "proj.get")
                   /\ files' = files
              ELSE LET charts == {proj.v[k] : k \in DOMAIN proj.v}
                       fs1 == Written(files, charts, r)
                   IN  IF ~io.sidecar
                       THEN /\ Abort(r, "writer", st0, <<Enter("writer")>>, "sources write")
                            /\ files' = fs1
                       ELSE AfterReportWrite(r, st0, io.report, ReportPath(now),
                                             Written(fs1, {SourcesPath(q, now)}, r))
           /\ observed' = [observed EXCEPT ![r] = With(@, "proj", proj)]
    /\ UNCHANGED <<toolVars, INDEX_REG, environ, now, builds, mode, local, passed, response>>

(***************************************************************************)
(* main.run_research after graph.invoke (main.py 33-38); an exception out  *)
(* of graph.invoke is answered 500 by Flask.                               *)
(***************************************************************************)
StatusOf(p, st, fs) ==
    IF p = "raised" THEN 500
    ELSE IF "report_html" \notin DOMAIN st \/ st.report_html \notin DOMAIN fs THEN 500
    ELSE 302

Respond(r) ==
    /\ pc[r] \in {"END", "raised"}
    /\ response[r] = 0
    /\ response' = [response EXCEPT ![r] = StatusOf(pc[r], state[r], files)]
    /\ UNCHANGED <<toolVars, procVars, pc, mode, state, local, invoked, passed, observed,
                   cause>>

(***************************************************************************)
(* Spec: one request is served, against every answer of the outside world. *)
(* SpecConc: NumRuns requests are served concurrently (Flask's threaded    *)
(* server), the outside world answering.                                   *)
(***************************************************************************)
InitRuns ==
    /\ vclaims = <<>>
    /\ vsources = <<>>
    /\ vres = <<>>
    /\ calls = <<>>
    /\ INDEX_REG = <<>>
    /\ environ = NONE
    /\ now = 0
    /\ files = <<>>
    /\ builds = <<>>
    /\ pc = [r \in Runs |-> "idle"]
    /\ mode = [r \in Runs |-> NONE]
    /\ state = [r \in Runs |-> <<>>]
    /\ local = [r \in Runs |-> <<>>]
    /\ invoked = [r \in Runs |-> <<>>]
    /\ passed = [r \in Runs |-> <<>>]
    /\ observed = [r \in Runs |-> <<>>]
    /\ cause = [r \in Runs |-> NONE]
    /\ response = [r \in Runs |-> 0]

Init == InitRuns

\* the run Spec follows
First == {1}

Next ==
    \/ Tick
    \/ \E r \in First : \E md \in Modes : \E q \in Queries : \E t \in Tickers :
          Request(r, md, q, t)
    \/ \E r \in First : \E so \in SearchOutcomes : \E down \in FetchOutcomes :
          Researcher(r, so, down)
    \/ \E r \in First : \E prov \in Providers : CuratorBuild(r, prov)
    \/ \E r \in First : \E sim \in SimOutcomes : \E llm \in SummaryOutcomes :
          CuratorSelect(r, sim, llm)
    \/ \E r \in First : \E llm \in ClaimsOutcomes : FactChecker(r, llm)
    \/ \E r \in First : \E kp \in PageKpis : \E fb \in FallbackKpis : \E io \in IoOutcomes :
          Writer(r, kp, fb, io)
    \/ \E r \in First : Respond(r)

Spec == Init /\ [][Next]_vars

\* the served requests against a well-behaved outside world, for SpecConc
ConcQueries == {<<"N","V","D","A"," ","o","u","t","l","o","o","k">>}
ConcTickers == {Some(<<"N","V","D","A">>)}
ConcSearch == {so \in SearchOutcomes : so.ddgs.kind = "list"}
ConcFetch == {{}, {"u1"}}
ConcProviders == {"ok"}
ConcSim == {"fwd"}
ConcSummary == {llm \in SummaryOutcomes : llm.kind = "raise"}
ConcClaims == {llm \in ClaimsOutcomes : llm.kind = "text"}
ConcIo == {io \in IoOutcomes : io.sidecar /\ io.report}

NextConc ==
    \/ Tick
    \/ \E r \in Runs : \E md \in Modes : \E q \in ConcQueries : \E t \in ConcTickers :
          Request(r, md, q, t)
    \/ \E r \in Runs : \E so \in ConcSearch : \E down \in ConcFetch :
          Researcher(r, so, down)
    \/ \E r \in Runs : \E prov \in ConcProviders : CuratorBuild(r, prov)
    \/ \E r \in Runs : \E sim \in ConcSim : \E llm \in ConcSummary :
          CuratorSelect(r, sim, llm)
    \/ \E r \in Runs : \E llm \in ConcClaims : FactChecker(r, llm)
    \/ \E r \in Runs : \E io \in ConcIo : Writer(r, <<>>, <<>>, io)
    \/ \E r \in Runs : Respond(r)

SpecConc == Init /\ [][NextConc]_vars

(***************************************************************************)
(* SpecCurate: the curator stage of one run, entered with the documents of *)
(* a research stage that fetched up to MaxCurDocs pages, some with no      *)
(* text.                                                                   *)
(***************************************************************************)
MaxCurDocs == 6       \* most documents the research stage hands over

DocNames == <<"d1", "d2", "d3", "d4", "d5", "d6", "d7", "d8">>

\* the i-th fetched page: its fetch failed (no text) or it has a text of its own
CurDoc(i, failed) ==
    [url |-> DocNames[i], title |-> DocNames[i],
     text |-> IF failed THEN <<>> ELSE <<"p", "a", "g", "e", " ", DocNames[i]>>]

\* the documents of a research stage that fetched n pages, those in failed in vain
CurDocs(n, failed) == [i \in 1..n |-> CurDoc(i, i \in failed)]

\* the run state the research stage leaves behind
Researched(q, docs) ==
    [query |-> q, ticker |-> None,
     web_results |-> [i \in 1..Len(docs) |->
                         [title |-> docs[i].title, snippet |-> <<>>, link |-> docs[i].url]],
     docs |-> docs,
     trace |-> <<[node |-> "researcher", t |-> 0],
                 [node |-> "researcher:done", t |-> 0, docs |-> Len(docs)]>>]

InitCurate ==
    /\ vclaims = <<>> /\ vsources = <<>> /\ vres = <<>> /\ calls = <<>>
    /\ INDEX_REG = <<>>
    /\ environ = EnvForMode("normal")
    /\ now = 0
    /\ files = <<>>
    /\ builds = <<>>
    /\ \E n \in 1..MaxCurDocs : \E failed \in SUBSET (1..n) : \E q \in ConcQueries :
          /\ state = [r \in Runs |-> IF r \in First THEN Researched(q, CurDocs(n, failed))
                                    ELSE <<>>]
          /\ observed = [r \in Runs |-> IF r \in First
                                       THEN [fetched |-> CurDocs(n, failed)] ELSE <<>>]
    /\ pc = [r \in Runs |-> IF r \in First THEN Edge("researcher") ELSE "idle"]
    /\ mode = [r \in Runs |-> IF r \in First THEN "normal" ELSE NONE]
    /\ local = [r \in Runs |-> <<>>]
    /\ invoked = [r \in Runs |-> IF r \in First
                                THEN <<Enter("researcher"), Exit("researcher")>> ELSE <<>>]
    /\ passed = [r \in Runs |-> <<>>]
    /\ cause = [r \in Runs |-> NONE]
    /\ response = [r \in Runs |-> 0]

NextCurate ==
    \/ \E r \in First : \E prov \in Providers : CuratorBuild(r, prov)
    \/ \E r \in First : \E sim \in SimOutcomes : \E llm \in SummaryOutcomes :
          CuratorSelect(r, sim, llm)

SpecCurate == InitCurate /\ [][NextCurate]_vars

(***************************************************************************)
(* _estimate_growth (tools.py 298-309).  A Python float is a number in     *)
(* units of 0.0001 (800 is 0.08) or NaN; None and an absent key of kpi are *)
(* Absent.  The inputs are multiples of 0.01, on which the products by     *)
(* 0.5, 0.7 and 0.3 are exact.                                             *)
(***************************************************************************)
Absent == [kind |-> "absent", v |-> 0]
NaN == [kind |-> "nan", v |-> 0]
Num(n) == [kind |-> "num", v |-> n]

\* a > b and a < b on floats: False when either is NaN
FGt(a, b) == a.kind = "num" /\ b.kind = "num" /\ a.v > b.v
FLt(a, b) == a.kind = "num" /\ b.kind = "num" /\ a.v < b.v

\* max(a, b) and min(a, b): the first argument unless the second compares beyond it
PyMax(a, b) == IF FGt(b, a) THEN b ELSE a
PyMin(a, b) == IF FLt(b, a) THEN b ELSE a

\* a + b, a - b, a * (num / den)
FAdd(a, b) == IF a.kind = "nan" \/ b.kind = "nan" THEN NaN ELSE Num(a.v + b.v)
FSub(a, b) == IF a.kind = "nan" \/ b.kind = "nan" THEN NaN ELSE Num(a.v - b.v)
FScale(a, num, den) == IF a.kind = "nan" THEN NaN ELSE Num((a.v * num) \div den)

\* np.clip(x, lo, hi)
NpClip(x, lo, hi) ==
    IF x.kind = "nan" THEN NaN
    ELSE IF x.v < lo.v THEN lo ELSE IF x.v > hi.v THEN hi ELSE x

\* `if gm:` on a float or None: None and 0.0 are falsy, NaN is truthy
FTruthyWrong(x) == x.kind /= "absent"
FTruthy(x) == x.kind = "nan" \/ (x.kind = "num" /\ x.v /= 0)

\* base = 0.08 and the floor 0.01
GrowthBase == 800
GrowthFloor == 100

\* if gm: adj += min(max((gm-0.35)*0.5, -0.05), 0.10)
GmAdj(gm) ==
    IF FTruthy(gm)
    THEN PyMin(PyMax(FScale(FSub(gm, Num(3500)), 5, 10), Num(-500)), Num(1000))
    ELSE Num(0)

\* if om: adj += min(max((om-0.15)*0.7, -0.05), 0.12)
OmAdj(om) ==
    IF FTruthy(om)
    THEN PyMin(PyMax(FScale(FSub(om, Num(1500)), 7, 10), Num(-500)), Num(1200))
    ELSE Num(0)

\* if pe and pe>0: if pe<20: adj += 0.02 / elif pe>50: adj -= 0.03
PeAdj(pe) ==
    IF FTruthy(pe) /\ FGt(pe, Num(0))
    THEN IF FLt(pe, Num(200000)) THEN Num(200)
         ELSE IF FGt(pe, Num(500000)) THEN Num(-300) ELSE Num(0)
    ELSE Num(0)

\* if cagr is not None: adj += np.clip(cagr*0.5, -0.05, 0.10)
CagrAdj(cagr) ==
    IF cagr.kind /= "absent" THEN NpClip(FScale(cagr, 5, 10), Num(-500), Num(1000))
    ELSE Num(0)

\* if momentum is not None: adj += np.clip(momentum*0.3, -0.05, 0.06)
MomentumAdj(momentum) ==
    IF momentum.kind /= "absent" THEN NpClip(FScale(momentum, 3, 10), Num(-500), Num(600))
    ELSE Num(0)

estimate_growth(kpi, momentum, cagr) ==
    LET gm == Get(kpi, "gross_margin", Absent)
        om == Get(kpi, "operating_margin", Absent)
        pe == Get(kpi, "p_e_ratio", Absent)
        adj == FAdd(FAdd(FAdd(FAdd(GmAdj(gm), OmAdj(om)), PeAdj(pe)), CagrAdj(cagr)),
                    MomentumAdj(momentum))
    IN  PyMax(FAdd(Num(GrowthBase), adj), Num(GrowthFloor))

(***************************************************************************)
(* SpecTools: a tool or helper is called once on its own, on arguments     *)
(* drawn from bounded pools.                                               *)
(***************************************************************************)
MaxKpiHits == 2       \* most search hits with text that kpi_web_fallback reads
MaxHits == 3          \* most raw hits the search provider answers with
MaxResults == 3       \* largest max_results asked of web_search

\* the KPI names a source can have values for
KpiDomains ==
    { {}, {"p_e_ratio"}, {"p_e_ratio", "p_s_ratio"}, {"gross_margin", "operating_margin"},
      KpiNames }

\* the KPI sets of a source; every value of source n is n, so that a value tells
\* where it came from (1: the documents of the run, 10 + i: the i-th hit of the
\* fallback search, 20: the financial-data provider)
KpisFrom(n) == {[k \in D |-> n] : D \in KpiDomains}

\* the KPI sets the hits of the fallback search can have
FoundPool == UNION {{[i \in 1..n |-> [k \in D[i] |-> 10 + i]] : D \in [1..n -> KpiDomains]} :
                    n \in 0..MaxKpiHits}

\* writer.node lines 136-143 on its own: page extraction, then the fallback
KpiCall(page, found, yk) ==
    /\ calls = <<>>
    /\ LET need == ~AllKpis(page)
           fb == IF need THEN kpi_web_fallback(found, yk) ELSE <<>>
       IN  calls' = <<[tool |-> "kpi", page |-> page, need |-> need, found |-> found,
                       yk |-> yk, fb |-> fb, kpi |-> WriterKpi(page, fb)]>>
    /\ UNCHANGED <<vclaims, vsources, vres, procVars, runVars>>

\* the raw hits a search provider can answer with: two with the same link under
\* different names, one whose title is the link of others, one with neither link
\* nor title, one with a title only
RawHitPool ==
    { [title |-> "A", href |-> "u1", body |-> <<"a">>],
      [title |-> "B", link |-> "u1", snippet |-> <<"b">>],
      [title |-> "u1", abstract |-> <<"c">>],
      [body |-> <<"d">>],
      [t |-> "E", url |-> ""] }

\* web_search on its own, the hits coming from DDGS
SearchCall(raw, max_results) ==
    /\ calls = <<>>
    /\ LET out == web_search([kind |-> "absent"], [kind |-> "list", items |-> raw],
                             max_results)
       IN  calls' = <<[tool |-> "web_search", raw |-> raw, max_results |-> max_results,
                       out |-> out.value]>>
    /\ UNCHANGED <<vclaims, vsources, vres, procVars, runVars>>

\* the margins a KPI set can hold: absent, NaN (a NaN row of the financial
\* statement divided by the revenue), 0, -0.20, 0.20, 0.30, 0.45 and 0.90
MarginPool == {Absent, NaN, Num(0), Num(-2000), Num(2000), Num(3000), Num(4500), Num(9000)}

\* the P/E ratios: absent, NaN, -5, 0, 10, 20, 35, 50 and 60
PePool ==
    {Absent, NaN, Num(-50000), Num(0), Num(100000), Num(200000), Num(350000), Num(500000),
     Num(600000)}

\* momentum and CAGR: absent, NaN, -0.40, 0, 0.10 and 0.50
RatePool == {Absent, NaN, Num(-4000), Num(0), Num(1000), Num(5000)}

\* a dict without the keys whose value is absent
KpiDict(gm, om, pe) ==
    LET all == [gross_margin |-> gm, operating_margin |-> om, p_e_ratio |-> pe]
    IN  [k \in {n \in DOMAIN all : all[n] /= Absent} |-> all[k]]

\* _estimate_growth on its own
GrowthCall(gm, om, pe, momentum, cagr) ==
    /\ calls = <<>>
    /\ calls' = <<[tool |-> "growth", gm |-> gm, om |-> om, pe |-> pe,
                   momentum |-> momentum, cagr |-> cagr,
                   out |-> estimate_growth(KpiDict(gm, om, pe), momentum, cagr)]>>
    /\ UNCHANGED <<vclaims, vsources, vres, procVars, runVars>>

InitTools == vclaims = <<>> /\ vsources = <<>> /\ vres = <<>> /\ InitIdle

\* one call is made
NextTools ==
    \/ /\ calls = <<>>
       /\ \E page \in KpisFrom(1) : \E found \in FoundPool : \E yk \in KpisFrom(20) :
             KpiCall(page, found, yk)
    \/ /\ calls = <<>>
       /\ \E raw \in SeqsUpTo(RawHitPool, MaxHits) : \E max_results \in 0..MaxResults :
             SearchCall(raw, max_results)
    \/ /\ calls = <<>>
       /\ \E gm \in MarginPool : \E om \in MarginPool : \E pe \in PePool :
          \E momentum \in RatePool : \E cagr \in RatePool :
             GrowthCall(gm, om, pe, momentum, cagr)

SpecTools == InitTools /\ [][NextTools]_vars

(***************************************************************************)
(* Claims about the pipeline.                                              *)
(***************************************************************************)
\* s is a prefix of t
IsPrefix(s, t) == Len(s) <= Len(t) /\ SubSeq(t, 1, Len(s)) = s

\* every stage entered and left once, in order
StageOrder ==
    <<Enter("researcher"), Exit("researcher"), Enter("curator"), Exit("curator"),
      Enter("fact_checker"), Exit("fact_checker"), Enter("writer"), Exit("writer")>>

\* the number of stages a run at pc has behind it
StagesDone(p) ==
    CASE p = "idle" -> 0 [] p = "researcher" -> 0 [] p = "curator" -> 1
      [] p = "fact_checker" -> 2 [] p = "writer" -> 3 [] p = "END" -> 4
      [] OTHER -> 0

\* C1: in every run the four stages researcher, curator, fact_checker and writer
\* are each invoked once and in that order: no stage starts before its
\* predecessor has finished, none is skipped, none is invoked a second time; a
\* run that reached the end went through all four.
C1_StagesOnceInOrder ==
    \A r \in Runs :
        /\ IsPrefix(invoked[r], StageOrder)
        /\ pc[r] \in {"idle", "researcher", "curator", "fact_checker", "writer", "END",
                      "raised"}
        /\ pc[r] /= "raised" =>
              /\ IsPrefix(SubSeq(StageOrder, 1, 2 * StagesDone(pc[r])), invoked[r])
              /\ Len(invoked[r]) <= 2 * StagesDone(pc[r]) + 1
        /\ pc[r] = "END" => invoked[r] = StageOrder

\* a run went through the four stages and ended
C1_Witness == \E r \in Runs : pc[r] = "END" /\ invoked[r] = StageOrder

\* C2 (as stated): whatever the search, page-fetch and language-generation calls
\* do, no stage raises and the run ends with a non-empty summary and a report
\* path in its state, unless a file write of the report stage fails.
C2_NoStageRaises ==
    \A r \in Runs :
        /\ pc[r] = "raised" => cause[r] \in {"report write", "sources write"}
        /\ pc[r] = "END" =>
              /\ "summary" \in DOMAIN state[r] /\ ~SummaryIsEmpty(state[r].summary)
              /\ "report_html" \in DOMAIN state[r]

\* C3: a run is at the end only with a report path in its state whose file was
\* written; if writing the sources sidecar or the report file fails the run does
\* not reach the end, it raises, and the caller is answered 500, never 302.
C3_DoneOnlyWithWrittenReport ==
    \A r \in Runs :
        /\ pc[r] = "END" =>
              /\ cause[r] = NONE
              /\ "report_html" \in DOMAIN state[r]
              /\ state[r].report_html \in DOMAIN files
        /\ cause[r] \in {"report write", "sources write"} =>
              /\ pc[r] = "raised"
              /\ "report_html" \notin DOMAIN state[r]
        /\ pc[r] = "raised" => response[r] \in {0, 500}
        /\ response[r] = 302 => pc[r] = "END"

\* the report file of a run could not be written and its caller was answered 500
C3_Witness ==
    \E r \in Runs : cause[r] = "report write" /\ pc[r] = "raised" /\ response[r] = 500

\* the node names of a trace
TraceNodes(st) ==
    LET tr == Get(st, "trace", <<>>) IN [i \in 1..Len(tr) |-> tr[i].node]

\* C4 (as stated): each of the four stages appends a start event and, after its
\* work, a done event carrying a summary metric: the trace of a completed run
\* holds two events per stage, start before done, in stage order (8 in total).
C4_TwoEventsPerStage ==
    \A r \in Runs :
        pc[r] = "END" =>
            /\ TraceNodes(state[r]) =
                  <<"researcher", "researcher:done", "curator", "curator:done",
                    "fact_checker", "fact_checker:done", "writer", "writer:done">>
            /\ \A i \in {2, 4, 6, 8} : DOMAIN state[r].trace[i] \ {"node", "t"} /= {}

\* the successful build_index calls made so far
GoodBuilds == {i \in 1..Len(builds) : Succeeded(builds[i].out)}

\* C9 (as stated): every successful build, in any interleaving of the builds of
\* concurrent runs (also within one millisecond), allocates a new registry entry:
\* the key it returns was not in the registry before, from then on the key maps
\* to the index built from that call's documents, and after n successful builds
\* the registry holds n entries.
C9_BuildAllocatesNewEntry ==
    /\ \A i \in GoodBuilds :
          /\ builds[i].out.value.key \notin DOMAIN builds[i].before
          /\ builds[i].out.value.key \in DOMAIN INDEX_REG
          /\ INDEX_REG[builds[i].out.value.key] = LangDocs(builds[i].docs)
    /\ Cardinality(DOMAIN INDEX_REG) = Cardinality(GoodBuilds)

\* the threshold the mode of a request stands for
ModeMinOverlap(md) == IF md = "strict" THEN 2 ELSE 1

\* C10 (as stated): the min_overlap a run's fact-check stage passes to verify is
\* the one of the run's own mode (strict 2, normal and relaxed 1), whatever the
\* modes of the runs that start or are in progress at the same time.
C10_OwnModeThreshold ==
    \A r \in Runs : \A i \in 1..Len(passed[r]) : passed[r][i] = ModeMinOverlap(mode[r])

(***************************************************************************)
(* Claims about the tools called on their own.                             *)
(***************************************************************************)
\* the calls of one tool
CallsOf(tool) == {i \in 1..Len(calls) : calls[i].tool = tool}

\* the value the first hit that has k gives it (0: no hit has k)
RECURSIVE FirstFound(_, _)
FirstFound(found, k) ==
    IF found = <<>> THEN 0
    ELSE IF k \in DOMAIN Head(found) THEN Head(found)[k]
    ELSE FirstFound(Tail(found), k)

\* C11 (as stated): a KPI key that has a value is never overwritten: inside the
\* fallback the value of an earlier hit is kept against later hits and against
\* the financial-data provider, and in the report stage every KPI that page
\* extraction produced keeps its page-extracted value in the final KPI set,
\* whatever the fallback returns for that key.
C11_PresentKpiNeverOverwritten ==
    \A i \in CallsOf("kpi") :
        LET c == calls[i]
        IN  /\ \A k \in DOMAIN c.fb :
                  IF FirstFound(c.found, k) /= 0 THEN c.fb[k] = FirstFound(c.found, k)
                  ELSE k \in DOMAIN c.yk /\ c.fb[k] = c.yk[k]
            /\ \A k \in DOMAIN c.page : k \in DOMAIN c.kpi /\ c.kpi[k] = c.page[k]

\* the run has left the research stage and no later stage has started
JustResearched(r) == pc[r] = "curator" /\ local[r] = <<>> /\ "fetched" \in DOMAIN observed[r]

\* a fetch of the research stage gave text
SomeFetched(r) ==
    \E i \in 1..Len(observed[r].fetched) : observed[r].fetched[i].text /= <<>>

\* C12 (as stated): after the research stage, if none of the top 6 hits is
\* fetchable (no link, or the fetch fails and yields empty text), docs is
\* one pseudo-document built from the first hit's title and snippet; downstream
\* stages always receive at least one document.
C12_PseudoDocWhenNothingFetched ==
    \A r \in Runs :
        JustResearched(r) =>
            LET docs == state[r].docs
                hits == state[r].web_results
            IN  /\ Len(docs) >= 1
                /\ ~SomeFetched(r) =>
                      /\ Len(docs) = 1
                      /\ hits /= <<>> =>
                            /\ docs[1].title = hits[1].title
                            /\ docs[1].text = hits[1].snippet

\* the dedup key of a normalised hit: its link, or its title when the link is empty
KeyOf(h) == IF h.link /= "" THEN h.link ELSE h.title

\* the elements of s at the indices in keep, in the order of s
RECURSIVE Pick(_, _, _)
Pick(s, i, keep) ==
    IF i > Len(s) THEN <<>>
    ELSE IF i \in keep THEN <<s[i]>> \o Pick(s, i + 1, keep)
    ELSE Pick(s, i + 1, keep)

\* the indices of the first hit of each key
FirstOfKey(hits) == {i \in 1..Len(hits) : \A j \in 1..(i - 1) : KeyOf(hits[j]) /= KeyOf(hits[i])}

\* the hits that have a key
Keyed(hits) == {i \in 1..Len(hits) : KeyOf(hits[i]) /= ""}

\* C13 (as stated): the output of web_search is the first max_results elements of
\* the sequence that keeps, in first-seen order, the first hit of each dedup key.
C13_FirstOfEachKey ==
    \A c \in CallsOf("web_search") :
        LET hits == NormAll(calls[c].raw)
        IN  calls[c].out = Prefix(Pick(hits, 1, FirstOfKey(hits)), calls[c].max_results)

\* C13 (amended): the output of web_search is the first max_results elements of
\* the sequence that keeps, in first-seen order, the first hit of each dedup key
\* among the hits that have a key; a hit with neither link nor title is dropped.
\* No two output hits share a key and the kept hits keep their relative order.
C13_FirstOfEachKeyAmongKeyed ==
    \A c \in CallsOf("web_search") :
        LET hits == NormAll(calls[c].raw)
            out == calls[c].out
        IN  /\ out = Prefix(Pick(hits, 1, FirstOfKey(hits) \cap Keyed(hits)),
                            calls[c].max_results)
            /\ Len(out) <= calls[c].max_results
            /\ \A i \in 1..Len(out) : \A j \in 1..Len(out) :
                  KeyOf(out[i]) = KeyOf(out[j]) => i = j

\* three hits, the first and the last with the same link, came back as two
C13_Witness ==
    \E c \in CallsOf("web_search") :
        LET hits == NormAll(calls[c].raw)
        IN  /\ Len(hits) = 3 /\ calls[c].max_results = 2
            /\ hits[1].link = "u1" /\ hits[3].link = "u1" /\ KeyOf(hits[2]) = "E"
            /\ calls[c].out = <<hits[1], hits[2]>>

\* C14 (as stated): for every KPI set (each of gross_margin, operating_margin
\* and p_e_ratio present with any value, or absent) and every momentum and CAGR
\* (present or absent) estimate_growth returns a rate >= 0.01.
C14_GrowthAtLeastFloor ==
    \A c \in CallsOf("growth") : calls[c].out.kind = "num" /\ calls[c].out.v >= 100

\* min(max(x, lo), hi) on integers
Clamp(x, lo, hi) == IF x < lo THEN lo ELSE IF x > hi THEN hi ELSE x

Max2(a, b) == IF a >= b THEN a ELSE b

\* the inputs of a call that are NaN
NaNInputs(c) == {n \in {"gm", "om", "pe", "momentum", "cagr"} : c[n].kind = "nan"}

\* the adjustments as the claim states them: every present input counts
StatedGm(x) == IF x.kind = "num" THEN Clamp(((x.v - 3500) * 5) \div 10, -500, 1000) ELSE 0
StatedOm(x) == IF x.kind = "num" THEN Clamp(((x.v - 1500) * 7) \div 10, -500, 1200) ELSE 0
StatedPe(x) ==
    IF x.kind = "num" THEN (IF x.v < 200000 THEN 200 ELSE IF x.v > 500000 THEN -300 ELSE 0)
    ELSE 0
StatedMomentum(x) == IF x.kind = "num" THEN Clamp((x.v * 3) \div 10, -500, 600) ELSE 0
StatedCagr(x) == IF x.kind = "num" THEN Clamp((x.v * 5) \div 10, -500, 1000) ELSE 0

\* C18 (as stated): estimate_growth is max(0.01, 0.08 + a_gm + a_om + a_pe + a_mom
\* + a_cagr), each adjustment being the stated one for an input that is present
\* (0 and negative numbers included) and 0 for an absent input.
C18_GrowthIsSumOfStatedAdjustments ==
    \A c \in CallsOf("growth") :
        NaNInputs(calls[c]) = {} =>
            calls[c].out =
                Num(Max2(100, 800 + StatedGm(calls[c].gm) + StatedOm(calls[c].om)
                                  + StatedPe(calls[c].pe)
                                  + StatedMomentum(calls[c].momentum)
                                  + StatedCagr(calls[c].cagr)))

\* C18 (amended): a gross or operating margin of 0 counts as absent, and so does a
\* P/E that is 0, negative or NaN; with these adjustments estimate_growth is
\* max(0.01, 0.08 + a_gm + a_om + a_pe + a_mom + a_cagr), unless a margin, the
\* momentum or the CAGR is NaN, in which case it is NaN.
C18_GrowthIsSumOfAdjustments ==
    \A c \in CallsOf("growth") :
        LET in == calls[c]
            a_gm == IF in.gm.v = 0 THEN 0 ELSE StatedGm(in.gm)
            a_om == IF in.om.v = 0 THEN 0 ELSE StatedOm(in.om)
            a_pe == IF in.pe.kind = "num" /\ in.pe.v > 0 THEN StatedPe(in.pe) ELSE 0
        IN  IF NaNInputs(in) \ {"pe"} /= {}
            THEN in.out = NaN
            ELSE in.out = Num(Max2(100, 800 + a_gm + a_om + a_pe
                                        + StatedMomentum(in.momentum)
                                        + StatedCagr(in.cagr)))

\* a call with a gross margin of 0 and a negative P/E got the base rate; a call
\* with every adjustment at its lower end got the floor
C18_Witness ==
    /\ \E c \in CallsOf("growth") :
          /\ calls[c].gm = Num(0) /\ calls[c].pe = Num(-50000) /\ calls[c].om = Absent
          /\ calls[c].momentum = Absent /\ calls[c].cagr = Absent
          /\ calls[c].out = Num(800)

\* the run-state fields a stage owns
Owned(stage) ==
    CASE stage = "researcher" -> {"web_results", "docs"}
      [] stage = "curator" -> {"summary"}
      [] stage = "fact_checker" -> {"claims", "checked_claims"}
      [] stage = "writer" -> {"report_html"}
      [] OTHER -> {}

\* C15 (as stated): each stage writes only the run-state fields it owns and leaves
\* every other field unchanged (query and ticker never change; web_results and
\* docs are written by the research stage only, so the later stages see the
\* documents it produced; summary by the curator, claims and checked_claims by
\* the fact-check stage, the report path by the report stage); stages only
\* append to trace.
C15_StagesWriteOwnFields ==
    [][\A r \in Runs :
          pc[r] \in {"researcher", "curator", "fact_checker", "writer"} =>
              /\ DOMAIN state[r] \subseteq DOMAIN state'[r]
              /\ \A k \in DOMAIN state'[r] \ (Owned(pc[r]) \cup {"trace"}) :
                    k \in DOMAIN state[r] /\ state'[r][k] = state[r][k]
              /\ IsPrefix(Get(state[r], "trace", <<>>), Get(state'[r], "trace", <<>>))]_vars

\* the build_index call of the curator stage of run r
BuildOf(r) == builds[CHOOSE i \in 1..Len(builds) : builds[i].by = r]

\* the curator stage of run r is over
Curated(r) == "searched" \in DOMAIN observed[r] /\ \E i \in 1..Len(builds) : builds[i].by = r

\* the hits the index search of run r returned (none when it was not made or raised)
HitsOf(r) ==
    LET res == observed[r].searched
    IN  IF res.kind = "return" THEN res.value ELSE <<>>

\* the summary of docs when the language model answers llm
SummaryOf(docs, llm) ==
    IF llm.kind = "text" /\ \E i \in 1..Len(llm.text) : llm.text[i] \notin Whitespace
    THEN [head |-> Strip(llm.text), bullets |-> <<>>]
    ELSE [head |-> SummaryHeader,
          bullets |-> [i \in 1..(IF Len(docs) < 5 THEN Len(docs) ELSE 5) |->
                          [title |-> docs[i].title, url |-> docs[i].url,
                           snip |-> NoNewlines(Prefix(docs[i].text, 280))]]]

\* C16: in the curator stage, if the index build fails or the index search
\* returns no hits, the selected documents are the first 6 input documents,
\* unchanged and in input order; otherwise they are the search hits mapped one to
\* one, in result order, to {url, title, text} taken from the hit's metadata and
\* text; at most 6 documents are selected and the summary is computed from the
\* selected documents.
C16_SelectedIsHitsOrFirstSix ==
    \A r \in Runs :
        Curated(r) /\ pc[r] = "fact_checker" =>
            LET input == BuildOf(r).docs
                hits == HitsOf(r)
                selected == state[r].docs
            IN  /\ IF ~Succeeded(BuildOf(r).out) \/ hits = <<>>
                   THEN selected = SubSeq(input, 1, IF Len(input) < 6 THEN Len(input) ELSE 6)
                   ELSE /\ Len(selected) = Len(hits)
                        /\ \A i \in 1..Len(hits) :
                              /\ selected[i].url = hits[i].metadata.url
                              /\ selected[i].title = hits[i].metadata.title
                              /\ selected[i].text = hits[i].text
                /\ Len(selected) <= 6
                /\ state[r].summary = SummaryOf(selected, observed[r].llm)

\* both cases happened: a build that failed left the input documents selected, a
\* search that ranked the last document first left the hits selected
C16_Witness ==
    \E r \in Runs :
        /\ Curated(r) /\ pc[r] = "fact_checker"
        /\ Len(BuildOf(r).docs) >= 3
        /\ Succeeded(BuildOf(r).out)
        /\ Len(HitsOf(r)) = 2
        /\ state[r].docs /= BuildOf(r).docs
        /\ state[r].docs[1].url = BuildOf(r).docs[Len(BuildOf(r).docs)].url

\* a failed build left the first input documents selected
C16_WitnessFallback ==
    \E r \in Runs :
        /\ Curated(r) /\ pc[r] = "fact_checker"
        /\ ~Succeeded(BuildOf(r).out)
        /\ Len(state[r].docs) >= 2
        /\ state[r].docs = BuildOf(r).docs

\* the decoded tool responses a stage of run r received where it expects a list
\* or a mapping
Decoded(r) == {observed[r][k] : k \in DOMAIN observed[r] \cap {"proj"}}

\* C17 (as stated): in every stage a tool response that does not decode to the
\* expected shape (it decodes to a plain non-empty string where a list or a
\* mapping is expected) is treated as an absent value: the stage goes on with
\* its fallback and does not raise.
C17_UndecodableIsAbsent ==
    \A r \in Runs :
        \A d \in Decoded(r) : d.t = "str" => pc[r] /= "raised" /\ cause[r] = NONE

\* run r completed with a report path
Completed(r) == pc[r] = "END" /\ "report_html" \in DOMAIN state[r]

\* C19 (as stated): any two runs that each complete, also when their report
\* stages execute within the same second, end with distinct report paths, so
\* the report file of one run is never overwritten by another run and the
\* report path of each run refers to its own report.
C19_DistinctReportPaths ==
    \A r1 \in Runs : \A r2 \in Runs :
        r1 /= r2 /\ Completed(r1) /\ Completed(r2) =>
            /\ state[r1].report_html /= state[r2].report_html
            /\ state[r1].report_html \in DOMAIN files
            /\ files[state[r1].report_html] = r1

====
